---------------------------- MODULE Spec2Model ----------------------------
(***************************************************************************)
(* Model of VideoDownloader.py: the Tk application (App), its event queue, *)
(* the worker thread and the Downloader progress hook.                     *)
(*                                                                         *)
(* Python strings are sequences of one-character strings, so that strip,   *)
(* float/int parsing and str() are computed character by character.  A     *)
(* message whose content is never inspected by the program (an exception   *)
(* text, a fixed label) is a one-element sequence holding the whole text.  *)
(***************************************************************************)
EXTENDS Integers, Sequences, FiniteSets, TLC

(***************************************************************************)
(* Bounds of the model.                                                    *)
(***************************************************************************)
MaxRuns == 2        \* accepted starts explored
MaxTicks == 1       \* progress-hook calls the engine makes in one run

(***************************************************************************)
(* String helpers (Python str methods and conversions).                    *)
(***************************************************************************)
Whitespace == {" ", "\t", "\n"}

DigitChars == <<"0", "1", "2", "3", "4", "5", "6", "7", "8", "9">>

IsDigit(c) == \E i \in 1..10 : DigitChars[i] = c

DigitVal(c) == (CHOOSE i \in 1..10 : DigitChars[i] = c) - 1

SetMin(S) == CHOOSE x \in S : \A y \in S : x <= y

SetMax(S) == CHOOSE x \in S : \A y \in S : x >= y

\* str.strip(chars): drop leading and trailing characters that are in cs
StripSet(s, cs) ==
    LET keep == {i \in 1..Len(s) : s[i] \notin cs}
    IN  IF keep = {} THEN <<>> ELSE SubSeq(s, SetMin(keep), SetMax(keep))

\* no trimming
Strip_None(s) == s

\* str.strip()
Strip(s) == StripSet(s, Whitespace)

RECURSIVE DecVal(_)
DecVal(ds) ==
    IF ds = <<>> THEN 0
    ELSE 10 * DecVal(SubSeq(ds, 1, Len(ds) - 1)) + DigitVal(ds[Len(ds)])

AllDigits(s) == \A i \in 1..Len(s) : IsDigit(s[i])

RECURSIVE NatToStr(_)
NatToStr(n) ==
    IF n < 10 THEN <<DigitChars[n + 1]>>
    ELSE NatToStr(n \div 10) \o <<DigitChars[(n % 10) + 1]>>

\* str(n) for an int n
IntToStr(n) == IF n < 0 THEN <<"-">> \o NatToStr(0 - n) ELSE NatToStr(n)

\* int(s) for a str s: [ok |-> FALSE] stands for ValueError
ParseInt(s) ==
    LET t    == Strip(s)
        sgn  == t # <<>> /\ t[1] \in {"-", "+"}
        body == IF sgn THEN Tail(t) ELSE t
    IN  IF body # <<>> /\ AllDigits(body)
        THEN [ok |-> TRUE,
              val |-> IF sgn /\ t[1] = "-" THEN 0 - DecVal(body) ELSE DecVal(body)]
        ELSE [ok |-> FALSE, val |-> 0]

\* int(float(s)) for a str s: optional sign, digits with at most one point,
\* truncated toward zero; [ok |-> FALSE] stands for the exception raised by
\* float() or int() on any other text
ParseFloatTrunc(s) ==
    LET t    == Strip(s)
        sgn  == t # <<>> /\ t[1] \in {"-", "+"}
        body == IF sgn THEN Tail(t) ELSE t
        dots == {i \in 1..Len(body) : body[i] = "."}
        ip   == IF dots = {} THEN body ELSE SubSeq(body, 1, SetMin(dots) - 1)
        fp   == IF dots = {} THEN <<>> ELSE SubSeq(body, SetMin(dots) + 1, Len(body))
    IN  IF /\ Cardinality(dots) <= 1
           /\ AllDigits(ip) /\ AllDigits(fp)
           /\ Len(ip) + Len(fp) > 0
        THEN [ok |-> TRUE,
              val |-> IF sgn /\ t[1] = "-" THEN 0 - DecVal(ip) ELSE DecVal(ip)]
        ELSE [ok |-> FALSE, val |-> 0]

\* no clamping
Clamp_None(n) == n

\* max(0, min(100, n)), lines 78 and 272
Clamp(n) == IF n < 0 THEN 0 ELSE IF n > 100 THEN 100 ELSE n


(***************************************************************************)
(* Fixed texts of the program (the source's Russian labels in ASCII).      *)
(***************************************************************************)
TxtPreparing == <<"Preparing...">>                  \* line 111
TxtPostprocessing == <<"Postprocessing (mp4)...">>  \* line 89
TxtDonePrefix == <<"Done: ">>                       \* line 279
TxtErrorPrefix == <<"Error: ">>                     \* line 284
TxtBaseTitle == <<"Fetch Media - yt-dlp">>          \* lines 161, 282, 287
TxtTitlePrefix == <<"Fetch Media - ">>              \* line 222
MsgNoMetadata == <<"yt-dlp returned no metadata.">> \* line 116
MsgNoStrip == <<"object has no attribute 'strip'">> \* AttributeError, line 75
MsgBadInt == <<"invalid literal for int()">>        \* ValueError, lines 81-82
MsgIntType == <<"int() argument must be a string or a number">> \* TypeError

(***************************************************************************)
(* human_size                                                              *)
(***************************************************************************)
Units == << <<"B">>, <<"K", "B">>, <<"M", "B">>, <<"G", "B">>, <<"T", "B">> >>

\* f"{num/den:.0f}" for num >= 0: round to nearest, ties to even
RoundHalfEven(num, den) ==
    LET q == num \div den
        r == num % den
    IN  IF 2 * r < den THEN q
        ELSE IF 2 * r > den THEN q + 1
        ELSE IF q % 2 = 0 THEN q ELSE q + 1

\* the loop of human_size at unit k (1-based), the running value being n/den
RECURSIVE HumanSizeFrom(_, _, _)
HumanSizeFrom(n, den, k) ==
    IF k > Len(Units)
    THEN IntToStr(RoundHalfEven(n, den)) \o <<" ", "P", "B">>
    ELSE IF n < 0 \/ n \div den < 1024
         THEN (IF n < 0 THEN IntToStr(n) ELSE IntToStr(RoundHalfEven(n, den)))
              \o <<" ">> \o Units[k]
         ELSE HumanSizeFrom(n, den * 1024, k + 1)

human_size(n) == HumanSizeFrom(n, 1, 1)

(***************************************************************************)
(* Values of the loosely typed progress dict: None/absent, an int, a str,  *)
(* or a value of another type (a non-empty list).                          *)
(***************************************************************************)
PyNone == [t |-> "none", n |-> 0, s |-> <<>>]

PyInt(i) == [t |-> "int", n |-> i, s |-> <<>>]

PyStr(x) == [t |-> "str", n |-> 0, s |-> x]

PyList == [t |-> "list", n |-> 0, s |-> <<>>]

\* truth value of a Python object
Truthy(v) ==
    CASE v.t = "none" -> FALSE
      [] v.t = "int"  -> v.n # 0
      [] v.t = "str"  -> v.s # <<>>
      [] OTHER        -> TRUE

\* a or b
Or(a, b) == IF Truthy(a) THEN a ELSE b

\* int(v): err is "" or the message of the exception raised
ToInt(v) ==
    CASE v.t = "int" -> [err |-> <<>>, val |-> v.n]
      [] v.t = "str" -> IF ParseInt(v.s).ok
                        THEN [err |-> <<>>, val |-> ParseInt(v.s).val]
                        ELSE [err |-> MsgBadInt, val |-> 0]
      [] OTHER       -> [err |-> MsgIntType, val |-> 0]

(***************************************************************************)
(* Downloader._hook: the events it puts, in order, and the exception that  *)
(* leaves it (err = <<>> when it returns normally; at = the source line    *)
(* that raised, 0 when none).                                              *)
(***************************************************************************)
Ev(kind, payload) == [kind |-> kind, payload |-> payload]

\* a failed conversion reports 0 instead of nothing
HookProgress_ZeroOnFailure(percent_str) ==
    LET r == ParseFloatTrunc(StripSet(percent_str, {"%"}))
    IN  <<Ev("progress", IntToStr(IF r.ok THEN Clamp(r.val) ELSE 0))>>

\* lines 76-80: the guarded percent conversion
HookProgress(percent_str) ==
    LET r == ParseFloatTrunc(StripSet(percent_str, {"%"}))
    IN  IF r.ok THEN <<Ev("progress", IntToStr(Clamp(r.val)))>> ELSE <<>>

\* the size line is not put
HookSize_NoLog(d) == [evs |-> <<>>, err |-> <<>>, at |-> 0]

\* lines 81-86: the size line
HookSize(d) ==
    LET downloaded == ToInt(Or(d.downloaded_bytes, PyInt(0)))
        total      == ToInt(Or(Or(d.total_bytes, d.total_bytes_estimate), PyInt(0)))
    IN  IF downloaded.err # <<>> THEN [evs |-> <<>>, err |-> downloaded.err, at |-> 81]
        ELSE IF total.err # <<>> THEN [evs |-> <<>>, err |-> total.err, at |-> 82]
        ELSE [evs |-> <<Ev("log",
                           human_size(downloaded.val)
                           \o (IF total.val # 0
                               THEN <<" ", "/", " ">> \o human_size(total.val)
                               ELSE <<>>))>>,
              err |-> <<>>, at |-> 0]

\* the post-processing line put before the progress value
HookFinished_LogFirst ==
    <<Ev("log", TxtPostprocessing), Ev("progress", <<"1", "0", "0">>)>>

\* lines 88-89
HookFinished ==
    <<Ev("progress", <<"1", "0", "0">>), Ev("log", TxtPostprocessing)>>

hook(d) ==
    IF d.status = "downloading"
    THEN LET p == Or(d.percent_str, PyStr(<<"0", "%">>))
         IN  IF p.t # "str"
             THEN [evs |-> <<>>, err |-> MsgNoStrip, at |-> 75]
             ELSE [evs |-> HookProgress(Strip(p.s)) \o HookSize(d).evs,
                   err |-> HookSize(d).err, at |-> HookSize(d).at]
    ELSE IF d.status = "finished"
    THEN [evs |-> HookFinished, err |-> <<>>, at |-> 0]
    ELSE [evs |-> <<>>, err |-> <<>>, at |-> 0]

(***************************************************************************)
(* File names and paths.                                                   *)
(***************************************************************************)
LastIndexOf(s, c) ==
    LET idx == {i \in 1..Len(s) : s[i] = c}
    IN  IF idx = {} THEN 0 ELSE SetMax(idx)

\* os.path.splitext (POSIX): <<root, ext>>; a name made of leading dots
\* only up to its last dot has no extension
SplitExt(p) ==
    LET sep == LastIndexOf(p, "/")
        dot == LastIndexOf(p, ".")
    IN  IF dot > sep /\ \E i \in (sep + 1)..(dot - 1) : p[i] # "."
        THEN <<SubSeq(p, 1, dot - 1), SubSeq(p, dot, Len(p))>>
        ELSE <<p, <<>>>>

Forbidden == {"\\", "/", "*", "?", ":", "\"", "<", ">", "|"}

\* re.sub(r'[\\/*?:"<>|]+', "_", name): every maximal run of forbidden
\* characters becomes one underscore
RECURSIVE SubForbidden(_)
SubForbidden(s) ==
    IF s = <<>> THEN <<>>
    ELSE IF s[1] \in Forbidden
         THEN IF Len(s) > 1 /\ s[2] \in Forbidden
              THEN SubForbidden(Tail(s))
              ELSE <<"_">> \o SubForbidden(Tail(s))
         ELSE <<s[1]>> \o SubForbidden(Tail(s))

sanitize_filename(name) ==
    LET cleaned == Strip(SubForbidden(name))
    IN  IF cleaned # <<>> THEN cleaned ELSE <<"v", "i", "d", "e", "o">>

DotMp4 == <<".", "m", "p", "4">>

force_mp4_name(base) == SplitExt(sanitize_filename(base))[1] \o DotMp4

\* the components of a path text between slashes
RECURSIVE PathParts(_)
PathParts(s) ==
    IF s = <<>> THEN <<>>
    ELSE LET slashes == {i \in 1..Len(s) : s[i] = "/"}
             cut     == IF slashes = {} THEN Len(s) + 1 ELSE SetMin(slashes)
             head    == SubSeq(s, 1, cut - 1)
             rest    == IF cut >= Len(s) THEN <<>> ELSE SubSeq(s, cut + 1, Len(s))
         IN  (IF head = <<>> \/ head = <<".">> THEN <<>> ELSE <<head>>)
             \o PathParts(rest)

RECURSIVE JoinParts(_)
JoinParts(ps) ==
    IF ps = <<>> THEN <<>>
    ELSE IF Len(ps) = 1 THEN ps[1]
    ELSE ps[1] \o <<"/">> \o JoinParts(Tail(ps))

\* str(Path(s)) on POSIX: empty and "." components and a trailing slash
\* are dropped, the root is kept, the empty path is "."
PathStr(s) ==
    LET root == IF s # <<>> /\ s[1] = "/" THEN <<"/">> ELSE <<>>
        body == JoinParts(PathParts(s))
    IN  IF root = <<>> /\ body = <<>> THEN <<".">> ELSE root \o body

\* the top-level _filename preferred to requested_downloads
ResolvePath_FilenameFirst(info) ==
    LET p1 == info.filename
        p2 == IF ~Truthy(p1) /\ info.requested_downloads # <<>>
              THEN info.requested_downloads[1].filepath ELSE p1
        p3 == IF ~Truthy(p2) THEN PyStr(info.prepared) ELSE p2
    IN  p3.s

\* lines 119-125: the path yt-dlp's metadata names
ResolvePath(info) ==
    LET p1 == IF info.requested_downloads # <<>>
              THEN info.requested_downloads[1].filepath ELSE PyNone
        p2 == IF ~Truthy(p1) THEN info.filename ELSE p1
        p3 == IF ~Truthy(p2) THEN PyStr(info.prepared) ELSE p2
    IN  p3.s

\* the .mp4 sibling returned without asking whether it exists
Reconcile_AlwaysMp4(path, files) == PathStr(SplitExt(path)[1] \o DotMp4)

\* lines 128-130: the .mp4 sibling when it exists among files, else the path
Reconcile(path, files) ==
    LET mp4 == PathStr(SplitExt(path)[1] \o DotMp4)
    IN  IF mp4 \in files THEN mp4 ELSE PathStr(path)

(***************************************************************************)
(* Inputs: what the user types, what the file system answers and what the  *)
(* external engine (yt-dlp) reports and returns.                           *)
(***************************************************************************)
UrlTexts == {<<>>, <<" ">>, <<" ", "u", " ">>}

\* the output-folder and file-name entries
Form(outText, nameText) == [outText |-> outText, nameText |-> nameText]

Forms == { Form(<<" ">>, <<>>), Form(<<"d", "/">>, <<"c", ".", "m", "k", "v">>) }

Tick(status, percent_str, downloaded_bytes, total_bytes, total_bytes_estimate) ==
    [status |-> status, percent_str |-> percent_str,
     downloaded_bytes |-> downloaded_bytes, total_bytes |-> total_bytes,
     total_bytes_estimate |-> total_bytes_estimate]

NoTick == Tick("", PyNone, PyNone, PyNone, PyNone)

HookInputs ==
    { Tick("downloading", PyStr(<<"1", "5", "0", "%">>), PyInt(1536), PyInt(2048), PyNone),
      Tick("downloading", PyStr(<<"-", "5", "%">>), PyInt(0), PyNone, PyInt(1024)),
      Tick("downloading", PyStr(<<"a", "b", "c", "%">>), PyInt(1023), PyNone, PyNone),
      Tick("downloading", PyStr(<<" ", "4", "2", ".", "7", "%">>), PyStr(<<"1", "2">>), PyNone, PyNone),
      Tick("downloading", PyInt(50), PyInt(10), PyNone, PyNone),
      Tick("downloading", PyStr(<<"a", "b", "c", "%">>), PyStr(<<"x">>), PyNone, PyNone),
      Tick("downloading", PyNone, PyInt(10), PyList, PyNone),
      Tick("finished", PyNone, PyNone, PyNone, PyNone),
      Tick("error", PyNone, PyNone, PyNone, PyNone) }

EngineErrors == {<<"ERROR: unsupported URL">>}

MsgMkdir == <<"[Errno 13] Permission denied">>

PathBMkv == <<"a", "/", "b", ".", "m", "k", "v">>

PathBMp4 == <<"a", "/", "b", ".", "m", "p", "4">>

PathXWebm == <<"a", "/", "/", "x", ".", "w", "e", "b", "m">>

PathP == <<"a", "/", "p">>

Info(rd, filename, prepared) ==
    [requested_downloads |-> rd, filename |-> filename, prepared |-> prepared]

Infos ==
    { Info(<<[filepath |-> PyStr(PathBMkv)]>>, PyStr(PathXWebm), PathP),
      Info(<<[filepath |-> PyNone]>>, PyStr(PathXWebm), PathP),
      Info(<<>>, PyNone, PathP) }

FileSets == {{}, {PathBMp4}}

(***************************************************************************)
(* State.                                                                  *)
(***************************************************************************)
VARIABLES
    downloading,   \* App._downloading
    events,        \* App._events: the queue, a sequence of tagged events
    pb,            \* App.pb["value"]
    txt,           \* App.txt: the lines of the transcript
    title,         \* the window title (status text)
    pollpc,        \* "scheduled": _poll_queue waits in after(); "draining": it runs
    threads,       \* the worker threads that have not put their last event
    notice,        \* how the last _start_download call ended
    runs,          \* number of accepted starts
    emitted,       \* history: events put on the queue since the last accepted start
    taken,         \* history: events taken off the queue since the last accepted start
    outcome,       \* history: how download ended in the current run
    timers,        \* number of pending after() callbacks of _poll_queue
    probe          \* a pure function under test: its input and its results

vars == <<downloading, events, pb, txt, title, pollpc, threads, notice, runs,
          emitted, taken, outcome, timers, probe>>

NoOutcome == [kind |-> "none", val |-> <<>>]

\* no pure function is under test while the application runs
NoProbe == [fn |-> "none"]

\* the application state after App.__init__
AppInit ==
    /\ downloading = FALSE
    /\ events = <<>>
    /\ pb = 0
    /\ txt = <<>>
    /\ title = TxtBaseTitle
    /\ pollpc = "scheduled"
    /\ threads = <<>>
    /\ notice = "none"
    /\ runs = 0
    /\ emitted = <<>>
    /\ taken = <<>>
    /\ outcome = NoOutcome
    /\ timers = 1

Init == AppInit /\ probe = NoProbe

(***************************************************************************)
(* App._start_download, run by the Tk main loop between two callbacks.     *)
(***************************************************************************)
Downloads == <<"d", "o", "w", "n", "l", "o", "a", "d", "s">>

\* lines 237-241 and 249: the request built from the three entry fields
DownloadRequest(urlText, form) ==
    [url |-> Strip(urlText),
     outdir |-> PathStr(IF Strip(form.outText) # <<>>
                        THEN Strip(form.outText) ELSE Downloads),
     output_name |-> IF Strip(form.nameText) # <<>>
                     THEN PyStr(force_mp4_name(Strip(form.nameText))) ELSE PyNone]

\* line 250: a new thread at the first line of worker
NewThread(req, run) ==
    [pc |-> "mkdir", req |-> req, run |-> run, ticks |-> 0, d |-> NoTick,
     outbox |-> <<>>, err |-> <<>>, result |-> <<>>]

\* the busy check left out
StartGuard_NoCheck == TRUE

\* line 228
StartGuard == ~downloading

\* the UI is reset before the checks
Reject_ResetFirst(why) ==
    /\ notice' = why
    /\ pb' = 0
    /\ txt' = <<>>
    /\ UNCHANGED <<probe, timers, downloading, events, title, pollpc, threads,
                   runs, emitted, taken, outcome>>

\* lines 229-230 and 234-235: a message box, then return
Reject(why) ==
    /\ notice' = why
    /\ UNCHANGED <<probe, timers, downloading, events, pb, txt, title, pollpc, threads,
                   runs, emitted, taken, outcome>>

\* line 244 raises OSError: the callback ends there, Tk reports the
\* exception on stderr and the main loop goes on
MkdirRaises ==
    /\ notice' = "oserror"
    /\ UNCHANGED <<probe, timers, downloading, events, pb, txt, title, pollpc, threads,
                   runs, emitted, taken, outcome>>

\* the progress bar and the transcript keep what the last run left
Accept_NoReset(req) ==
    /\ runs < MaxRuns
    /\ notice' = "accepted"
    /\ downloading' = TRUE
    /\ threads' = Append(threads, NewThread(req, runs + 1))
    /\ runs' = runs + 1
    /\ emitted' = <<>>
    /\ taken' = <<>>
    /\ outcome' = NoOutcome
    /\ UNCHANGED <<probe, timers, pb, txt, events, title, pollpc>>

\* lines 245-250
Accept(req) ==
    /\ runs < MaxRuns
    /\ notice' = "accepted"
    /\ pb' = 0
    /\ txt' = <<>>
    /\ downloading' = TRUE
    /\ threads' = Append(threads, NewThread(req, runs + 1))
    /\ runs' = runs + 1
    /\ emitted' = <<>>
    /\ taken' = <<>>
    /\ outcome' = NoOutcome
    /\ UNCHANGED <<probe, timers, events, title, pollpc>>

start_download(urlText, form, mkdirOk) ==
    /\ pollpc = "scheduled"
    /\ IF ~StartGuard THEN Reject("busy")
       ELSE IF Strip(urlText) = <<>> THEN Reject("nourl")
       ELSE IF ~mkdirOk THEN MkdirRaises
       ELSE Accept(DownloadRequest(urlText, form))

StartDownload ==
    \E urlText \in UrlTexts, form \in Forms, mkdirOk \in BOOLEAN :
        start_download(urlText, form, mkdirOk)

(***************************************************************************)
(* worker and Downloader.download, one thread step at a time.  Every       *)
(* q.put is one atomic step; the steps interleave with the main loop.      *)
(***************************************************************************)
Tag(e, run) == [kind |-> e.kind, payload |-> e.payload, run |-> run]

RemoveAt(seq, i) == SubSeq(seq, 1, i - 1) \o SubSeq(seq, i + 1, Len(seq))

\* a LIFO queue in place of queue.Queue
Put_Lifo(i, e) ==
    /\ events' = <<Tag(e, threads[i].run)>> \o events
    /\ emitted' = Append(emitted, Tag(e, threads[i].run))

\* every event is put twice
Put_Twice(i, e) ==
    /\ events' = events \o <<Tag(e, threads[i].run), Tag(e, threads[i].run)>>
    /\ emitted' = emitted \o <<Tag(e, threads[i].run), Tag(e, threads[i].run)>>

\* worker.put, lines 139-140
Put(i, e) ==
    /\ events' = Append(events, Tag(e, threads[i].run))
    /\ emitted' = Append(emitted, Tag(e, threads[i].run))

Raised(msg) == [kind |-> "raised", val |-> msg]

Returned(path) == [kind |-> "returned", val |-> path]

\* line 96: req.outdir.mkdir in the worker thread
WorkerMkdir(i, ok) ==
    /\ threads[i].pc = "mkdir"
    /\ IF ok
       THEN /\ threads' = [threads EXCEPT ![i].pc = "status"]
            /\ UNCHANGED outcome
       ELSE /\ threads' = [threads EXCEPT ![i].pc = "put_error", ![i].err = MsgMkdir]
            /\ outcome' = Raised(MsgMkdir)
    /\ UNCHANGED <<probe, timers, downloading, events, pb, txt, title, pollpc, notice, runs,
                   emitted, taken>>

\* line 111
WorkerStatus(i) ==
    /\ threads[i].pc = "status"
    /\ Put(i, Ev("status", TxtPreparing))
    /\ threads' = [threads EXCEPT ![i].pc = "engine"]
    /\ UNCHANGED <<probe, timers, downloading, pb, txt, title, pollpc, notice, runs, taken, outcome>>

\* where the thread stands once the hook has evsLeft still to put: an
\* exception leaving the hook leaves extract_info and download too
AfterHook(evsLeft, err) ==
    IF evsLeft # <<>> THEN "hook" ELSE IF err # <<>> THEN "put_error" ELSE "engine"

\* line 114: the engine calls the progress hook with the dict d
EngineTick(i, d) ==
    /\ threads[i].pc = "engine"
    /\ threads[i].ticks < MaxTicks
    /\ LET h == hook(d)
       IN  /\ threads' = [threads EXCEPT ![i].pc = AfterHook(h.evs, h.err),
                                         ![i].d = d,
                                         ![i].ticks = @ + 1,
                                         ![i].outbox = h.evs,
                                         ![i].err = h.err]
           /\ outcome' = IF AfterHook(h.evs, h.err) = "put_error"
                         THEN Raised(h.err) ELSE outcome
    /\ UNCHANGED <<probe, timers, downloading, events, pb, txt, title, pollpc, notice, runs,
                   emitted, taken>>

\* lines 78, 86, 88, 89: the next self.put of the running hook call
HookPut(i) ==
    /\ threads[i].pc = "hook"
    /\ Put(i, Head(threads[i].outbox))
    /\ LET rest == Tail(threads[i].outbox)
       IN  /\ threads' = [threads EXCEPT ![i].outbox = rest,
                                         ![i].pc = AfterHook(rest, threads[i].err)]
           /\ outcome' = IF AfterHook(rest, threads[i].err) = "put_error"
                         THEN Raised(threads[i].err) ELSE outcome
    /\ UNCHANGED <<probe, timers, downloading, pb, txt, title, pollpc, notice, runs, taken>>

\* line 114: extract_info raises
EngineRaise(i, msg) ==
    /\ threads[i].pc = "engine"
    /\ threads' = [threads EXCEPT ![i].pc = "put_error", ![i].err = msg]
    /\ outcome' = Raised(msg)
    /\ UNCHANGED <<probe, timers, downloading, events, pb, txt, title, pollpc, notice, runs,
                   emitted, taken>>

\* lines 115-116: extract_info returns None
EngineReturnNone(i) ==
    /\ threads[i].pc = "engine"
    /\ threads' = [threads EXCEPT ![i].pc = "put_error", ![i].err = MsgNoMetadata]
    /\ outcome' = Raised(MsgNoMetadata)
    /\ UNCHANGED <<probe, timers, downloading, events, pb, txt, title, pollpc, notice, runs,
                   emitted, taken>>

\* lines 114-130: extract_info returns info; download returns the path
EngineReturn(i, info, files) ==
    /\ threads[i].pc = "engine"
    /\ LET path == Reconcile(ResolvePath(info), files)
       IN  /\ threads' = [threads EXCEPT ![i].pc = "put_done", ![i].result = path]
           /\ outcome' = Returned(path)
    /\ UNCHANGED <<probe, timers, downloading, events, pb, txt, title, pollpc, notice, runs,
                   emitted, taken>>

\* the .mp4 name is reported whatever download returned
DonePayload_ForceMp4(result) == SplitExt(result)[1] \o DotMp4

\* the payload of the done event, line 145
DonePayload(result) == result

\* line 145, after which the thread ends
WorkerPutDone(i) ==
    /\ threads[i].pc = "put_done"
    /\ Put(i, Ev("done", DonePayload(threads[i].result)))
    /\ threads' = RemoveAt(threads, i)
    /\ UNCHANGED <<probe, timers, downloading, pb, txt, title, pollpc, notice, runs, taken, outcome>>

\* str(e), line 147
ErrorPayload(err) == err

\* lines 146-147, after which the thread ends
WorkerPutError(i) ==
    /\ threads[i].pc = "put_error"
    /\ Put(i, Ev("error", ErrorPayload(threads[i].err)))
    /\ threads' = RemoveAt(threads, i)
    /\ UNCHANGED <<probe, timers, downloading, pb, txt, title, pollpc, notice, runs, taken, outcome>>

\* the steps of the worker's own code
WorkerStep ==
    \E i \in 1..Len(threads) :
        \/ \E ok \in BOOLEAN : WorkerMkdir(i, ok)
        \/ WorkerStatus(i)
        \/ HookPut(i)
        \/ WorkerPutDone(i)
        \/ WorkerPutError(i)

\* the steps of the external engine inside extract_info
EngineStep ==
    \E i \in 1..Len(threads) :
        \/ \E d \in HookInputs : EngineTick(i, d)
        \/ \E msg \in EngineErrors : EngineRaise(i, msg)
        \/ EngineReturnNone(i)
        \/ \E info \in Infos, files \in FileSets : EngineReturn(i, info, files)

(***************************************************************************)
(* App._poll_queue: one get_nowait per step.                               *)
(***************************************************************************)
\* after() fires: _poll_queue is entered
PollBegin ==
    /\ pollpc = "scheduled"
    /\ timers > 0
    /\ timers' = timers - 1
    /\ pollpc' = "draining"
    /\ UNCHANGED <<probe, downloading, events, pb, txt, title, threads, notice, runs,
                   emitted, taken, outcome>>

\* lines 270-274
PollProgress(payload) ==
    IF ParseInt(payload).ok THEN Clamp(ParseInt(payload).val) ELSE pb

\* the error branch forgets to clear the flag
PollBusy_DoneOnly(kind) == IF kind = "done" THEN FALSE ELSE downloading

\* a progress event ends the run as well
PollBusy_OnProgress(kind) ==
    IF kind \in {"done", "error", "progress"} THEN FALSE ELSE downloading

\* lines 281 and 286
PollBusy(kind) == IF kind \in {"done", "error"} THEN FALSE ELSE downloading

\* lines 267-287: get_nowait returns an event, which is applied
PollTake ==
    /\ pollpc = "draining"
    /\ events # <<>>
    /\ LET kind    == Head(events).kind
           payload == Head(events).payload
       IN  /\ events' = Tail(events)
           /\ taken' = Append(taken, Head(events))
           /\ pb' = CASE kind = "progress" -> PollProgress(payload)
                      [] kind = "done"     -> 100
                      [] OTHER             -> pb
           /\ txt' = CASE kind = "status" -> Append(txt, payload)
                       [] kind = "log"    -> Append(txt, payload)
                       [] kind = "done"   -> Append(txt, TxtDonePrefix \o payload)
                       [] kind = "error"  -> Append(txt, TxtErrorPrefix \o payload)
                       [] OTHER           -> txt
           /\ title' = CASE kind = "status"            -> TxtTitlePrefix \o payload
                         [] kind \in {"done", "error"} -> TxtBaseTitle
                         [] OTHER                      -> title
           /\ downloading' = PollBusy(kind)
    /\ UNCHANGED <<probe, timers, pollpc, threads, notice, runs, emitted, outcome>>

\* the finally clause forgotten
Reschedule_Never == timers

\* line 291: self.after(self.POLL_MS, self._poll_queue)
Reschedule == timers + 1

\* the tick returns after any event, as with "if" in place of "while"
PollEmpty_Early ==
    /\ pollpc = "draining"
    /\ pollpc' = "scheduled"
    /\ timers' = Reschedule
    /\ UNCHANGED <<probe, downloading, events, pb, txt, title, threads, notice, runs,
                   emitted, taken, outcome>>

\* lines 288-291: queue.Empty ends the drain and the next tick is scheduled
PollEmpty ==
    /\ pollpc = "draining"
    /\ events = <<>>
    /\ pollpc' = "scheduled"
    /\ timers' = Reschedule
    /\ UNCHANGED <<probe, downloading, events, pb, txt, title, threads, notice, runs,
                   emitted, taken, outcome>>

PollStep == PollBegin \/ PollTake \/ PollEmpty

\* the handlers that open a message box
RaisingKinds == {"done", "error"}

\* lines 267-291 when the first Tk call of a handler raises: get_nowait has
\* removed the event, the exception is not queue.Empty, so it leaves the
\* loop through the finally clause, which schedules the next tick
PollRaise ==
    /\ pollpc = "draining"
    /\ events # <<>>
    /\ Head(events).kind \in RaisingKinds
    /\ events' = Tail(events)
    /\ taken' = Append(taken, Head(events))
    /\ pollpc' = "scheduled"
    /\ timers' = Reschedule
    /\ UNCHANGED <<probe, downloading, pb, txt, title, threads, notice, runs,
                   emitted, outcome>>

Next == StartDownload \/ WorkerStep \/ EngineStep \/ PollStep

Spec == Init /\ [][Next]_vars

\* The OS schedules a runnable thread and Tk fires a due after() callback;
\* the external engine is not assumed to return.
FairSpec == Spec /\ WF_vars(WorkerStep) /\ WF_vars(PollStep)

\* the application with a presentation layer whose calls may raise
NextRaise == Next \/ PollRaise

RaiseSpec == Init /\ [][NextRaise]_vars

FairRaiseSpec ==
    RaiseSpec /\ WF_vars(WorkerStep) /\ WF_vars(PollStep \/ PollRaise)

(***************************************************************************)
(* The pure functions of the module, applied to inputs drawn from bounded  *)
(* sets: force_mp4_name (lines 40-47), and the two halves of the return    *)
(* of Downloader.download, path resolution (lines 119-125) and extension   *)
(* reconciliation (lines 128-130).  The application does not run.          *)
(***************************************************************************)
MaxNameLen == 3

MaxPathLen == 3

\* all strings of at most n characters of cs
RECURSIVE Strings(_, _)
Strings(cs, n) ==
    IF n = 0 THEN {<<>>}
    ELSE LET shorter == Strings(cs, n - 1)
         IN  shorter \cup {Append(s, c) : s \in shorter, c \in cs}

NameChars == {"a", ".", " ", "/"}

\* what the user may type in the file-name entry
NameInputs ==
    Strings(NameChars, MaxNameLen)
        \cup {<<"c", ".", "m", "k", "v">>, <<"a", ":", "*", "b">>,
              <<"a", ".", "m", "p", "4">>}

PathChars == {"a", ".", "/"}

\* the path texts yt-dlp may name
PathInputs ==
    (Strings(PathChars, MaxPathLen) \ {<<>>})
        \cup {PathBMkv, PathBMp4, PathXWebm, PathP}

\* the files that may exist; at most one of them does
FileUniverse ==
    {PathStr(q \o DotMp4) : q \in Strings(PathChars, MaxPathLen)}
        \cup {PathBMp4, <<"a", "/", "x", ".", "m", "p", "4">>}

FileSetInputs == {{}} \cup {{f} : f \in FileUniverse}

\* the metadata yt-dlp may return
InfoInputs ==
    { Info(rd, fn, PathP) :
        rd \in { <<>>,
                 <<[filepath |-> PyNone]>>,
                 <<[filepath |-> PyStr(<<>>)]>>,
                 <<[filepath |-> PyStr(PathBMkv)]>>,
                 <<[filepath |-> PyNone], [filepath |-> PyStr(PathBMp4)]>>,
                 <<[filepath |-> PyStr(PathBMkv)], [filepath |-> PyStr(PathBMp4)]>> },
        fn \in { PyNone, PyStr(<<>>), PyStr(PathXWebm) } }

appvars == <<downloading, events, pb, txt, title, pollpc, threads, notice, runs,
             emitted, taken, outcome, timers>>

PureInit ==
    /\ AppInit
    /\ probe \in
         {[fn |-> "force_mp4_name", applied |-> 0, arg |-> n,
           once |-> <<>>, twice |-> <<>>] : n \in NameInputs}
         \cup {[fn |-> "resolve", applied |-> 0, arg |-> i, out |-> <<>>] :
                 i \in InfoInputs}
         \cup {[fn |-> "reconcile", applied |-> 0, path |-> q, files |-> fs,
                out |-> <<>>] : q \in PathInputs, fs \in FileSetInputs}

\* force_mp4_name applied to the name, then to its own result
ApplyForceMp4 ==
    /\ probe.fn = "force_mp4_name"
    /\ probe.applied < 2
    /\ probe' = IF probe.applied = 0
                THEN [probe EXCEPT !.applied = 1, !.once = force_mp4_name(probe.arg)]
                ELSE [probe EXCEPT !.applied = 2, !.twice = force_mp4_name(probe.once)]
    /\ UNCHANGED appvars

\* lines 119-125
ApplyResolvePath ==
    /\ probe.fn = "resolve"
    /\ probe.applied = 0
    /\ probe' = [probe EXCEPT !.applied = 1, !.out = ResolvePath(probe.arg)]
    /\ UNCHANGED appvars

\* lines 128-130
ApplyReconcile ==
    /\ probe.fn = "reconcile"
    /\ probe.applied = 0
    /\ probe' = [probe EXCEPT !.applied = 1,
                              !.out = Reconcile(probe.path, probe.files)]
    /\ UNCHANGED appvars

PureNext == ApplyForceMp4 \/ ApplyResolvePath \/ ApplyReconcile

PureSpec == PureInit /\ [][PureNext]_vars

(***************************************************************************)
(* Properties.                                                             *)
(***************************************************************************)
ThreadIds == 1..Len(threads)

KindCount(seq, kind) == Cardinality({j \in 1..Len(seq) : seq[j].kind = kind})

Last(seq) == seq[Len(seq)]

\* the state the user observes and the channel, which a rejected start must keep
Observable == <<downloading, pb, txt, events, threads, runs>>

\* C1: at most one worker thread that has not yet put its done or error
\* event exists in every reachable state, and a thread is spawned only by a
\* step taken while _downloading is false.
C1_SingleInFlight ==
    /\ [](Len(threads) <= 1)
    /\ [][Len(threads') > Len(threads) => ~downloading /\ downloading']_vars

\* a second run is in flight and a further start has been turned away
C1_Witness == Len(threads) = 1 /\ runs = 2 /\ notice = "busy"

\* C2: a _start_download call made while _downloading is true spawns no
\* thread, queues nothing, and leaves _downloading, the progress value, the
\* transcript and the queue as they were.
C2_BusyStartNoEffect ==
    [][(downloading /\ StartDownload) => UNCHANGED Observable]_vars

\* a start was turned away in the middle of a run that has output on screen
\* and events waiting
C2_Witness ==
    /\ notice = "busy" /\ downloading
    /\ txt # <<>> /\ events # <<>> /\ pb > 0

\* the last event taken off the queue is of the given kind and payload
LastTaken(kind, payload) ==
    /\ taken # <<>>
    /\ Last(taken).kind = kind
    /\ Last(taken).payload = payload

\* C3: once download has returned a path, the run puts no error event and
\* at most one done event, whose payload is that path; taking a done event
\* leaves _downloading false and the progress bar at 100; and with worker
\* and tick scheduled fairly the done event is eventually taken.
C3_SuccessEndsInDone ==
    /\ [](outcome.kind = "returned" =>
            /\ KindCount(emitted, "error") = 0
            /\ KindCount(emitted, "done") <= 1
            /\ \A j \in 1..Len(emitted) :
                 emitted[j].kind = "done" => emitted[j].payload = outcome.val)
    /\ [][(Len(taken') > Len(taken) /\ Last(taken').kind = "done")
            => ~downloading' /\ pb' = 100]_vars
    /\ [](outcome.kind = "returned" =>
            <>(/\ LastTaken("done", outcome.val)
               /\ KindCount(emitted, "done") = 1
               /\ ~downloading /\ pb = 100))

\* a run whose download returned a path other than an .mp4 one has ended
C3_Witness ==
    /\ outcome.kind = "returned"
    /\ LastTaken("done", outcome.val)
    /\ SplitExt(outcome.val)[2] # DotMp4
    /\ ~downloading /\ pb = 100 /\ threads = <<>>

\* C4: once download has raised, the run puts no done event and at most one
\* error event, whose payload is the exception's message; taking an error
\* event leaves _downloading false; and with worker and tick scheduled
\* fairly the error event is eventually taken, after which a start is
\* accepted again.
C4_FailureEndsInError ==
    /\ [](outcome.kind = "raised" =>
            /\ KindCount(emitted, "done") = 0
            /\ KindCount(emitted, "error") <= 1
            /\ \A j \in 1..Len(emitted) :
                 emitted[j].kind = "error" => emitted[j].payload = outcome.val)
    /\ [][(Len(taken') > Len(taken) /\ Last(taken').kind = "error")
            => ~downloading']_vars
    /\ [](outcome.kind = "raised" =>
            <>(/\ LastTaken("error", outcome.val)
               /\ KindCount(emitted, "error") = 1
               /\ StartGuard /\ threads = <<>>))

\* a run whose engine call raised has ended
C4_Witness ==
    /\ outcome.kind = "raised"
    /\ outcome.val \in EngineErrors
    /\ LastTaken("error", outcome.val)
    /\ ~downloading /\ threads = <<>>

IsPrefix(a, b) == Len(a) <= Len(b) /\ a = SubSeq(b, 1, Len(a))

\* the transcript lines that applying the events of seq appends, in order
RECURSIVE Lines(_)
Lines(seq) ==
    IF seq = <<>> THEN <<>>
    ELSE LET e == Head(seq)
         IN  (CASE e.kind \in {"status", "log"} -> <<e.payload>>
                [] e.kind = "done"  -> <<TxtDonePrefix \o e.payload>>
                [] e.kind = "error" -> <<TxtErrorPrefix \o e.payload>>
                [] OTHER            -> <<>>)
             \o Lines(Tail(seq))

\* C5: within a run the events taken off the queue so far are a prefix of
\* the events the worker has put, what is still queued being the rest, and
\* the transcript holds the lines of the taken events in that order.
C5_TakenInEmissionOrder ==
    /\ IsPrefix(taken, emitted)
    /\ emitted = taken \o events
    /\ txt = Lines(taken)

\* several different events were taken while more were still queued
C5_Witness ==
    /\ Len(taken) >= 2 /\ events # <<>>
    /\ taken[1].kind # taken[2].kind
    /\ Head(events).kind # taken[2].kind
    /\ Len(txt) >= 2

\* the text is the str() of an integer between 0 and 100
IsPercentText(p) ==
    /\ p # <<>> /\ AllDigits(p)
    /\ (Len(p) > 1 => p[1] # "0")
    /\ DecVal(p) \in 0..100

Pct150 == PyStr(<<"1", "5", "0", "%">>)

PctMinus5 == PyStr(<<"-", "5", "%">>)

\* thread i has just been handed tick d by the engine and has put nothing yet
JustTicked(i) ==
    /\ threads[i].ticks > 0
    /\ threads[i].pc \in {"hook", "put_error", "engine"}
    /\ Len(threads[i].outbox) = Len(hook(threads[i].d).evs)

\* C6: every progress event put on the queue carries the decimal text of an
\* integer in 0..100, a tick reporting 150% puts progress 100 and one
\* reporting -5% puts progress 0, and the progress bar value is in 0..100.
C6_ProgressInRange ==
    /\ \A j \in 1..Len(emitted) :
         emitted[j].kind = "progress" => IsPercentText(emitted[j].payload)
    /\ \A j \in 1..Len(events) :
         events[j].kind = "progress" => IsPercentText(events[j].payload)
    /\ \A i \in ThreadIds :
         JustTicked(i) /\ threads[i].d.status = "downloading" =>
           /\ threads[i].d.percent_str = Pct150 =>
                Head(threads[i].outbox) = Ev("progress", <<"1", "0", "0">>)
           /\ threads[i].d.percent_str = PctMinus5 =>
                Head(threads[i].outbox) = Ev("progress", <<"0">>)
    /\ pb \in 0..100

\* a 150% tick was clamped to 100 and the bar shows it while the run goes on
C6_Witness ==
    /\ downloading /\ pb = 100
    /\ \E i \in ThreadIds : threads[i].d.percent_str = Pct150
    /\ \E j \in 1..Len(taken) :
         taken[j].kind = "progress" /\ taken[j].payload = <<"1", "0", "0">>

\* float() rejects the percent text once blanks and % signs are stripped
PercentUnparseable(d) ==
    /\ d.status = "downloading"
    /\ d.percent_str.t = "str" /\ d.percent_str.s # <<>>
    /\ ~ParseFloatTrunc(StripSet(Strip(d.percent_str.s), {"%"})).ok

\* the byte counts are absent or integers
BytesWellFormed(d) ==
    \A v \in {d.downloaded_bytes, d.total_bytes, d.total_bytes_estimate} :
        v.t \in {"none", "int"}

\* the messages of the exceptions that can leave _hook
HookErrors == {MsgNoStrip, MsgBadInt, MsgIntType}

\* C7: a downloading tick whose percent text is not a number puts no
\* progress event and the failed conversion raises nothing: with well-formed
\* byte counts the hook puts its size line only and the run goes on, and in
\* no case does the percent handling leave the hook with an exception.
C7_UnparseablePercentDropped ==
    \A i \in ThreadIds :
        JustTicked(i) /\ PercentUnparseable(threads[i].d) =>
          /\ \A j \in 1..Len(threads[i].outbox) :
               threads[i].outbox[j].kind # "progress"
          /\ threads[i].err # MsgNoStrip
          /\ BytesWellFormed(threads[i].d) =>
               /\ threads[i].err = <<>>
               /\ threads[i].pc = "hook"
               /\ Len(threads[i].outbox) = 1
               /\ threads[i].outbox[1].kind = "log"
               /\ outcome.kind = "none"

\* the size line of an "abc%" tick was put and taken and the run goes on
C7_Witness ==
    /\ \E i \in ThreadIds :
         /\ PercentUnparseable(threads[i].d) /\ BytesWellFormed(threads[i].d)
         /\ threads[i].pc = "engine" /\ threads[i].ticks = 1
    /\ Len(taken) = 2 /\ Last(taken).kind = "log"
    /\ KindCount(emitted, "progress") = 0
    /\ downloading

\* C8 (as claimed): whatever the shape of a tick's fields, the hook returns
\* normally: no thread holds an exception raised inside _hook and no run
\* ends with one.
C8_HookNeverRaises ==
    /\ \A i \in ThreadIds : threads[i].err \notin HookErrors
    /\ outcome.val \notin HookErrors

\* C9 (as claimed): a start that passed the busy and URL checks and whose
\* directory creation failed has surfaced the failure as an error event
\* carrying the message.
C9_MkdirFailureIsErrorEvent ==
    notice = "oserror" =>
        \E j \in 1..Len(emitted) :
            emitted[j].kind = "error" /\ emitted[j].payload = MsgMkdir

\* the text is empty once trimmed
Blank(s) == \A i \in 1..Len(s) : s[i] \in Whitespace

\* C10: a _start_download call made while idle with a URL that is empty
\* after trimming spawns no thread, puts no event and leaves _downloading,
\* the progress value, the transcript and the queue as they were.
C10_EmptyUrlNoEffect ==
    [][(/\ ~downloading
        /\ \E urlText \in UrlTexts, form \in Forms, mkdirOk \in BOOLEAN :
             Blank(urlText) /\ start_download(urlText, form, mkdirOk))
       => UNCHANGED <<Observable, emitted, taken, title>>]_vars

\* after a finished run a start with a blank URL was turned away
C10_Witness ==
    /\ notice = "nourl" /\ ~downloading
    /\ runs = 1 /\ txt # <<>> /\ threads = <<>>

EndsWith(s, suffix) ==
    /\ Len(s) >= Len(suffix)
    /\ SubSeq(s, Len(s) - Len(suffix) + 1, Len(s)) = suffix

\* p has an extension starting at position k: a dot, followed by neither a
\* dot nor a slash, preceded in its component by a character other than a dot
HasExtAt(p, k) ==
    /\ k \in 1..Len(p)
    /\ p[k] = "."
    /\ \A j \in (k + 1)..Len(p) : p[j] \notin {".", "/"}
    /\ \E j \in 1..(k - 1) :
          /\ p[j] # "."
          /\ \A m \in j..(k - 1) : p[m] # "/"

\* p with its extension, if it has one, replaced by .mp4
Mp4Sibling(p) ==
    IF \E k \in 1..Len(p) : HasExtAt(p, k)
    THEN SubSeq(p, 1, (CHOOSE k \in 1..Len(p) : HasExtAt(p, k)) - 1) \o DotMp4
    ELSE p \o DotMp4

\* two texts name the same path
SamePath(a, b) == PathStr(a) = PathStr(b)

Reconciled == probe.fn = "reconcile" /\ probe.applied = 1

\* C11: for every resolved path p and every set of existing files, the
\* reconciliation returns the path of p with its extension replaced by .mp4
\* when a file exists at that path, and the path p itself otherwise.
C11_ExtensionReconciliation ==
    Reconciled =>
        IF \E f \in probe.files : SamePath(f, Mp4Sibling(probe.path))
        THEN /\ SamePath(probe.out, Mp4Sibling(probe.path))
             /\ probe.out \in probe.files
        ELSE SamePath(probe.out, probe.path)

\* a .mkv path whose .mp4 sibling exists has been reconciled to the sibling
C11_Witness ==
    /\ Reconciled
    /\ probe.path = PathBMkv
    /\ probe.files = {PathBMp4}
    /\ probe.out = PathBMp4

ForcedTwice == probe.fn = "force_mp4_name" /\ probe.applied = 2

\* C12: force_mp4_name is idempotent for every input name, and its output
\* always ends in .mp4 and contains none of the forbidden characters.
C12_ForceMp4Idempotent ==
    ForcedTwice =>
        /\ probe.twice = probe.once
        /\ EndsWith(probe.once, DotMp4)
        /\ \A i \in 1..Len(probe.once) : probe.once[i] \notin Forbidden

Resolved == probe.fn = "resolve" /\ probe.applied = 1

\* the text of a metadata field, empty when the field is absent or not text
FieldText(v) == IF v.t = "str" THEN v.s ELSE <<>>

FirstFilepath(info) ==
    IF info.requested_downloads = <<>> THEN <<>>
    ELSE FieldText(info.requested_downloads[1].filepath)

\* C19: the final path is the filepath of the first requested-downloads
\* entry when that is non-empty; otherwise the top-level _filename when that
\* is non-empty; otherwise the engine-computed filename.  A lower-priority
\* source is used only when every higher one is absent or empty.
C19_PathPriority ==
    Resolved =>
        LET a == FirstFilepath(probe.arg)
            b == FieldText(probe.arg.filename)
            c == probe.arg.prepared
        IN  /\ a # <<>> => probe.out = a
            /\ (a = <<>> /\ b # <<>>) => probe.out = b
            /\ (a = <<>> /\ b = <<>>) => probe.out = c
            /\ probe.out = b /\ b # a => a = <<>>
            /\ probe.out = c /\ c # a /\ c # b => (a = <<>> /\ b = <<>>)

\* the first entry has an empty filepath, a later entry and _filename have
\* one: _filename is used
C19_Witness ==
    /\ Resolved
    /\ Len(probe.arg.requested_downloads) = 2
    /\ FirstFilepath(probe.arg) = <<>>
    /\ probe.arg.filename = PyStr(PathXWebm)
    /\ probe.out = PathXWebm

Terminals(seq) == {j \in 1..Len(seq) : seq[j].kind \in {"done", "error"}}

\* C13: each worker execution puts exactly one terminal event, done or
\* error and never both, and that event is the last one the execution puts:
\* the events put since the accepted start all belong to its execution,
\* hold at most one terminal event, which is the last of them and ends the
\* thread, and hold exactly one once the thread has ended.
C13_OneTerminalEventLast ==
    /\ \A j \in 1..Len(emitted) : emitted[j].run = runs
    /\ Cardinality(Terminals(emitted)) <= 1
    /\ Terminals(emitted) # {} =>
          /\ Terminals(emitted) = {Len(emitted)}
          /\ threads = <<>>
    /\ (runs > 0 /\ threads = <<>>) => Cardinality(Terminals(emitted)) = 1

\* a run that put a status line, a progress value and a size line has ended
\* with its error event
C13_Witness ==
    /\ threads = <<>>
    /\ Len(emitted) >= 4
    /\ Last(emitted).kind = "error"
    /\ KindCount(emitted, "progress") >= 1
    /\ KindCount(emitted, "done") = 0

\* t is s without its leading and trailing whitespace
Trimmed(s, t) ==
    \E i, j \in 0..Len(s) :
        /\ t = SubSeq(s, i + 1, j)
        /\ \A k \in 1..i : s[k] \in Whitespace
        /\ \A k \in (j + 1)..Len(s) : s[k] \in Whitespace
        /\ t # <<>> => (t[1] \notin Whitespace /\ t[Len(t)] \notin Whitespace)

\* req is the request for what the user typed
RequestFor(urlText, form, req) ==
    /\ req.url # <<>>
    /\ Trimmed(urlText, req.url)
    /\ IF Blank(form.outText) THEN req.outdir = Downloads
       ELSE \E i, j \in 0..Len(form.outText) :
               /\ Trimmed(form.outText, SubSeq(form.outText, i + 1, j))
               /\ SamePath(req.outdir, SubSeq(form.outText, i + 1, j))
    /\ IF Blank(form.nameText) THEN req.output_name = PyNone
       ELSE /\ req.output_name.t = "str"
            /\ EndsWith(req.output_name.s, DotMp4)

\* C14: an accepted start sets _downloading, resets the progress value to 0,
\* clears the transcript and starts exactly one worker thread, at its first
\* line, for the request built from the entries; a thread starts in no
\* other step; and _downloading becomes false only in the step that takes
\* the done or error event of that execution off the queue.
C14_AcceptedStart ==
    [][/\ runs' = runs + 1 =>
            /\ ~downloading /\ downloading'
            /\ pb' = 0
            /\ txt' = <<>>
            /\ threads = <<>> /\ Len(threads') = 1
            /\ threads'[1].pc = "mkdir"
            /\ threads'[1].run = runs'
            /\ \E u \in UrlTexts, f \in Forms : start_download(u, f, TRUE)
            /\ \A u \in UrlTexts, f \in Forms :
                  start_download(u, f, TRUE) => RequestFor(u, f, threads'[1].req)
       /\ Len(threads') > Len(threads) => runs' = runs + 1
       /\ (downloading /\ ~downloading') =>
            /\ events # <<>>
            /\ Head(events).kind \in {"done", "error"}
            /\ Head(events).run = runs
            /\ taken' = Append(taken, Head(events))
      ]_vars

\* the second start has been accepted after an earlier run: the flag is set,
\* the progress value and the transcript are reset, the thread is at its
\* first line with the trimmed URL, the normalized folder and the .mp4 name
C14_Witness ==
    /\ runs = 2
    /\ notice = "accepted"
    /\ downloading
    /\ pb = 0
    /\ txt = <<>>
    /\ Len(threads) = 1
    /\ threads[1].pc = "mkdir"
    /\ threads[1].req.url = <<"u">>
    /\ threads[1].req.outdir = <<"d">>
    /\ threads[1].req.output_name = PyStr(<<"c", ".", "m", "p", "4">>)

\* C15: a tick of _poll_queue drains the queue without blocking: while it
\* runs, its next step never waits (it takes the head event when there is
\* one and ends when there is none), it ends only on an empty queue, and
\* when it ends every event put so far, hence every event put before the
\* tick began, has been taken and applied to the transcript.
C15_TickDrainsWithoutBlocking ==
    /\ [](pollpc = "draining" =>
            /\ events # <<>> => ENABLED PollTake
            /\ events = <<>> => ENABLED PollEmpty)
    /\ [][(pollpc = "draining" /\ pollpc' = "scheduled") =>
            /\ events = <<>>
            /\ taken = emitted
            /\ txt = Lines(taken)
            /\ UNCHANGED <<events, taken, txt, pb, downloading>>]_vars

\* a tick has ended in the middle of a run, with the status line and at
\* least one more event of the run taken and applied
C15_Witness ==
    /\ pollpc = "scheduled"
    /\ downloading
    /\ threads # <<>>
    /\ events = <<>>
    /\ Len(emitted) >= 2
    /\ taken = emitted
    /\ txt = Lines(taken)

\* C16: _poll_queue always reschedules itself: at every moment exactly one
\* tick is either pending in after() or running, every end of a tick, on an
\* empty queue or on a handler that raised, schedules one further tick, and
\* so every event put on the queue is eventually taken off it.
C16_AlwaysRescheduled ==
    /\ [](timers + (IF pollpc = "draining" THEN 1 ELSE 0) = 1)
    /\ [][(pollpc = "draining" /\ pollpc' = "scheduled") =>
              timers' = timers + 1]_vars
    /\ (events # <<>>) ~> (events = <<>>)

\* the handler of a done event has raised before it cleared the flag: the
\* event is off the queue and the next tick is pending
C16_Witness ==
    /\ pollpc = "scheduled"
    /\ timers = 1
    /\ taken # <<>>
    /\ Last(taken).kind = "done"
    /\ downloading
    /\ pb # 100
    /\ events = <<>>

\* C17 (as claimed): when the percent of a downloading tick cannot be
\* parsed, the hook puts no event of any kind on the queue for that tick.
C17_NoEventOnParseFailure ==
    \A i \in ThreadIds :
        JustTicked(i) /\ PercentUnparseable(threads[i].d) =>
            threads[i].outbox = <<>>

\* C17 (amended): when the percent of a downloading tick cannot be parsed,
\* the hook puts no progress event and the failed conversion raises no
\* error; the only event the hook puts for that tick is the tick's size
\* line, which it does put unless a byte count is not a number.  Once the
\* hook has returned, that size line is the last event put, and the event
\* before it is not a progress event.
C17_OnlyProgressDropped ==
    \A i \in ThreadIds :
        PercentUnparseable(threads[i].d) =>
          /\ JustTicked(i) =>
               /\ Len(threads[i].outbox) <= 1
               /\ \A j \in 1..Len(threads[i].outbox) :
                     threads[i].outbox[j].kind = "log"
               /\ threads[i].err \in {<<>>, MsgBadInt, MsgIntType}
               /\ threads[i].outbox = <<>> <=> ~BytesWellFormed(threads[i].d)
               /\ threads[i].outbox = <<>> <=> threads[i].err # <<>>
          /\ (threads[i].pc = "engine" /\ threads[i].ticks > 0) =>
               /\ Len(emitted) >= 2
               /\ Last(emitted).kind = "log"
               /\ emitted[Len(emitted) - 1].kind # "progress"

\* the hook has returned from an "abc%" tick of 1023 bytes: the status line
\* and the size line are all the run has put
C17_Witness ==
    /\ \E i \in ThreadIds :
         /\ threads[i].pc = "engine" /\ threads[i].ticks = 1
         /\ threads[i].d.percent_str = PyStr(<<"a", "b", "c", "%">>)
         /\ threads[i].d.downloaded_bytes = PyInt(1023)
    /\ Len(emitted) = 2
    /\ emitted[1].kind = "status"
    /\ emitted[2].kind = "log"
    /\ emitted[2].payload = human_size(1023)

\* C18: a finished tick puts exactly two events, progress 100 and then the
\* post-processing line, in that order, and a tick whose status is neither
\* downloading nor finished puts no event and lets the engine go on.
C18_FinishedAndOtherTicks ==
    /\ [](\A i \in ThreadIds :
            /\ (JustTicked(i) /\ threads[i].d.status = "finished") =>
                 /\ threads[i].outbox = <<Ev("progress", <<"1", "0", "0">>),
                                          Ev("log", TxtPostprocessing)>>
                 /\ threads[i].err = <<>>
            /\ (threads[i].pc = "engine" /\ threads[i].ticks > 0
                  /\ threads[i].d.status = "finished") =>
                 /\ Len(emitted) >= 3
                 /\ emitted[Len(emitted) - 1].kind = "progress"
                 /\ emitted[Len(emitted) - 1].payload = <<"1", "0", "0">>
                 /\ Last(emitted).kind = "log"
                 /\ Last(emitted).payload = TxtPostprocessing)
    /\ [][\A i \in ThreadIds :
            (/\ i <= Len(threads')
             /\ threads'[i].ticks = threads[i].ticks + 1
             /\ threads'[i].d.status \notin {"downloading", "finished"}) =>
                /\ threads'[i].outbox = <<>>
                /\ threads'[i].err = <<>>
                /\ threads'[i].pc = "engine"
                /\ UNCHANGED <<events, emitted, outcome>>]_vars

\* both events of a finished tick were put and taken in order, and the
\* progress bar is full while the run goes on
C18_Witness ==
    /\ \E i \in ThreadIds :
         /\ threads[i].pc = "engine" /\ threads[i].ticks > 0
         /\ threads[i].d.status = "finished"
    /\ Len(taken) >= 3 /\ taken = emitted
    /\ taken[Len(taken) - 1].kind = "progress"
    /\ Last(taken).payload = TxtPostprocessing
    /\ pb = 100
    /\ downloading

\* C20: whenever _downloading is false the queue is empty and no worker
\* thread runs, and every event in the queue or taken off it since the last
\* accepted start was put by the execution that start spawned: an accepted
\* start finds no event of an earlier run, and what a run applies is its own.
C20_IdleMeansQuiescent ==
    /\ ~downloading => (events = <<>> /\ threads = <<>>)
    /\ \A j \in 1..Len(events) : events[j].run = runs
    /\ \A j \in 1..Len(taken) : taken[j].run = runs
    /\ \A i \in ThreadIds : threads[i].run = runs
    /\ txt = Lines(taken)

\* the second run is under way and its events, and only they, are applied
C20_Witness ==
    /\ runs = 2
    /\ downloading
    /\ Len(taken) >= 2
    /\ \A j \in 1..Len(taken) : taken[j].run = 2
    /\ events # <<>>
    /\ txt = Lines(taken)

=============================================================================
